---- MODULE Spec2Model ----
(***************************************************************************)
(* Error handling with Folktale: the Maybe, Result and Validation demo     *)
(* functions of the playground, as pure operators over a universe of       *)
(* JavaScript values, and a state machine that draws an input and applies  *)
(* one function to it.                                                     *)
(***************************************************************************)
EXTENDS Integers, Sequences, FiniteSets, TLC

VARIABLES op, args, result, pc

vars == <<op, args, result, pc>>

(***************************************************************************)
(* Bounds of the model.                                                    *)
(***************************************************************************)
\* longest string drawn as a generic input value
MaxStrLen == 3
\* numbers drawn as generic input values and as operands: -MaxInt..MaxInt
MaxInt == 5
\* longest string drawn for the e-mail field
MaxEmailLen == 6
\* longest string drawn for the password field
MaxPasswordLen == 9
\* longest error sequence drawn for a Failure
MaxErrors == 2
\* most forms handed to validateForms at once
MaxForms == 2
\* most transformations applied in a row to one Validation
MaxSteps == 2

(***************************************************************************)
(* JavaScript values.  A string is the sequence of its characters (a       *)
(* literal of the source is kept as one fragment).                         *)
(***************************************************************************)
Null == [t |-> "null"]

Undefined == [t |-> "undefined"]

\* a finite number: the reduced fraction n/d, d > 0 (an integer has d = 1)
Frac(n, d) == [t |-> "number", k |-> "fin", n |-> n, d |-> d]

Num(n) == Frac(n, 1)

NaN == [t |-> "number", k |-> "nan"]

Infinity == [t |-> "number", k |-> "inf"]

NegInfinity == [t |-> "number", k |-> "ninf"]

Bool(b) == [t |-> "boolean", b |-> b]

Str(s) == [t |-> "string", s |-> s]

Arr(a) == [t |-> "array", a |-> a]

\* a plain object: the sequence of its <<key, value>> properties
Obj(props) == [t |-> "object", props |-> props]

\* a Map: the function from its keys to the values stored under them
MapOf(m) == [t |-> "map", m |-> m]

typeof(v) ==
  CASE v.t = "undefined" -> "undefined"
    [] v.t = "number" -> "number"
    [] v.t = "string" -> "string"
    [] v.t = "boolean" -> "boolean"
    [] OTHER -> "object"

WhiteSpace == {" ", "\n", "\t"}

Digits == <<"0", "1", "2", "3", "4", "5", "6", "7", "8", "9">>

DigitSet == {Digits[i] : i \in 1..10}

DigitValue(c) == (CHOOSE i \in 1..10 : Digits[i] = c) - 1

RECURSIVE NatToChars(_)
NatToChars(n) ==
  IF n < 10 THEN <<Digits[n + 1]>>
  ELSE NatToChars(n \div 10) \o <<Digits[(n % 10) + 1]>>

IntToChars(n) == IF n < 0 THEN <<"-">> \o NatToChars(0 - n) ELSE NatToChars(n)

RECURSIVE DigitsToNat(_)
DigitsToNat(s) ==
  IF s = <<>> THEN 0
  ELSE DigitsToNat(SubSeq(s, 1, Len(s) - 1)) * 10 + DigitValue(s[Len(s)])

RECURSIVE TrimStart(_)
TrimStart(s) ==
  IF s # <<>> /\ s[1] \in WhiteSpace THEN TrimStart(Tail(s)) ELSE s

RECURSIVE TrimEnd(_)
TrimEnd(s) ==
  IF s # <<>> /\ s[Len(s)] \in WhiteSpace
  THEN TrimEnd(SubSeq(s, 1, Len(s) - 1)) ELSE s

\* String.prototype.trim
trim(s) == TrimEnd(TrimStart(s))

\* ToString of a value, as `${value}` and Array.prototype.join compute it
RECURSIVE ToStringJS(_)
RECURSIVE JoinJS(_, _)
ToStringJS(v) ==
  CASE v.t = "null" -> <<"null">>
    [] v.t = "undefined" -> <<"undefined">>
    [] v.t = "number" ->
         (CASE v.k = "fin" /\ v.d = 1 -> IntToChars(v.n)
            [] v.k = "nan" -> <<"NaN">>
            [] v.k = "inf" -> <<"Infinity">>
            [] v.k = "ninf" -> <<"-Infinity">>)
    [] v.t = "boolean" -> IF v.b THEN <<"true">> ELSE <<"false">>
    [] v.t = "string" -> v.s
    [] v.t = "array" -> JoinJS(v.a, <<",">>)
    [] v.t = "object" -> <<"[object Object]">>
    [] v.t = "map" -> <<"[object Map]">>
JoinJS(a, sep) ==
  IF a = <<>> THEN <<>>
  ELSE LET e == a[1]
           head == IF e.t \in {"null", "undefined"} THEN <<>> ELSE ToStringJS(e)
       IN IF Len(a) = 1 THEN head ELSE head \o sep \o JoinJS(Tail(a), sep)

\* ToNumber of a string: white space is trimmed, the empty string is 0
StringToNumber(s) ==
  LET u == trim(s)
      signed == u # <<>> /\ u[1] \in {"-", "+"}
      body == IF signed THEN Tail(u) ELSE u
  IN CASE u = <<>> -> Num(0)
       [] u = <<"Infinity">> \/ u = <<"+", "Infinity">> -> Infinity
       [] u = <<"-Infinity">> \/ u = <<"-", "Infinity">> -> NegInfinity
       [] body # <<>> /\ \A i \in 1..Len(body) : body[i] \in DigitSet ->
            IF signed /\ u[1] = "-" THEN Num(0 - DigitsToNat(body))
            ELSE Num(DigitsToNat(body))
       [] OTHER -> NaN

\* ToNumber
ToNumber(v) ==
  CASE v.t = "undefined" -> NaN
    [] v.t = "null" -> Num(0)
    [] v.t = "boolean" -> IF v.b THEN Num(1) ELSE Num(0)
    [] v.t = "number" -> v
    [] v.t = "string" -> StringToNumber(v.s)
    [] OTHER -> StringToNumber(ToStringJS(v))

Abs(n) == IF n < 0 THEN 0 - n ELSE n

RECURSIVE Gcd(_, _)
Gcd(a, b) == IF b = 0 THEN a ELSE Gcd(b, a % b)

\* the operator / on numbers
Divide(a, b) ==
  CASE a.k = "nan" \/ b.k = "nan" -> NaN
    [] a.k = "fin" /\ b.k = "fin" /\ b.n # 0 ->
         LET n == a.n * b.d
             d == a.d * b.n
             g == Gcd(Abs(n), Abs(d))
             sg == IF d < 0 THEN 0 - 1 ELSE 1
         IN Frac((sg * n) \div g, (sg * d) \div g)
    [] a.k = "fin" /\ b.k = "fin" ->
         IF a.n = 0 THEN NaN ELSE IF a.n > 0 THEN Infinity ELSE NegInfinity
    [] a.k = "fin" -> Num(0)
    [] b.k = "fin" ->
         IF (a.k = "inf") = (b.n >= 0) THEN Infinity ELSE NegInfinity
    [] OTHER -> NaN

\* the global isNaN: coerces its argument to a number first
isNaN(v) == ToNumber(v) = NaN

\* ToBoolean
truthy(v) ==
  CASE v.t \in {"null", "undefined"} -> FALSE
    [] v.t = "boolean" -> v.b
    [] v.t = "number" -> ~(v = NaN \/ v = Num(0))
    [] v.t = "string" -> v.s # <<>>
    [] OTHER -> TRUE

(***************************************************************************)
(* Maybe                                                                   *)
(***************************************************************************)
Just(v) == [tag |-> "Just", value |-> v]

Nothing == [tag |-> "Nothing"]

\* Maybe.chain: Just(v).chain(f) is f(v), Nothing.chain(f) is Nothing.
\* m.chain(f) is written chain(m, f(m.value)): the second argument is the
\* value of f at the payload, which is looked at only for a Just.
chain(m, fOfValue) == IF m.tag = "Just" THEN fOfValue ELSE m

nullCheck(value) == IF value = Null THEN Nothing ELSE Just(value)

undefinedCheck(value) == IF value = Undefined THEN Nothing ELSE Just(value)

nanCheck(value) == IF isNaN(value) THEN Nothing ELSE Just(value)

emptyStringCheck(value) == IF value = Str(<<>>) THEN Nothing ELSE Just(value)

blankStringCheck(value) ==
  IF typeof(value) = "string" /\ trim(value.s) = <<>> THEN Nothing
  ELSE Just(value)

truthyCheck(value) == IF truthy(value) THEN Just(value) ELSE Nothing

posInfinityCheck(value) == IF value = Infinity THEN Nothing ELSE Just(value)

negInfinityCheck(value) == IF value = NegInfinity THEN Nothing ELSE Just(value)

badStringCheck(value) ==
  LET m1 == emptyStringCheck(value)
  IN chain(m1, blankStringCheck(m1.value))

infinityCheck(value) ==
  LET m1 == posInfinityCheck(value)
  IN chain(m1, negInfinityCheck(m1.value))

exceptionCheck(value) ==
  LET m1 == nullCheck(value)
      m2 == chain(m1, undefinedCheck(m1.value))
      m3 == chain(m2, badStringCheck(m2.value))
  IN chain(m3, nanCheck(m3.value))

\* The same chain with the invocations recorded.  A traced Maybe is the
\* Maybe a check returned with the sequence of the check functions that
\* were invoked to produce it, each with the argument it was given.
Invoked(check, value, m) ==
  [m |-> m, calls |-> <<[check |-> check, with |-> value]>>]

\* t.m.chain(f): f is invoked, with the payload, only for a Just
chainT(t, fOfValue) ==
  IF t.m.tag = "Just"
  THEN [m |-> fOfValue.m, calls |-> t.calls \o fOfValue.calls]
  ELSE t

nullCheckT(value) == Invoked("nullCheck", value, nullCheck(value))

undefinedCheckT(value) == Invoked("undefinedCheck", value, undefinedCheck(value))

nanCheckT(value) == Invoked("nanCheck", value, nanCheck(value))

emptyStringCheckT(value) ==
  Invoked("emptyStringCheck", value, emptyStringCheck(value))

blankStringCheckT(value) ==
  Invoked("blankStringCheck", value, blankStringCheck(value))

badStringCheckT(value) ==
  LET t1 == emptyStringCheckT(value)
  IN chainT(t1, blankStringCheckT(t1.m.value))

\* mutant: the number check is chained before the string checks
exceptionCheckT_nanBeforeStrings(value) ==
  LET t1 == nullCheckT(value)
      t2 == chainT(t1, undefinedCheckT(t1.m.value))
      t3 == chainT(t2, nanCheckT(t2.m.value))
  IN chainT(t3, badStringCheckT(t3.m.value))

exceptionCheckT(value) ==
  LET t1 == nullCheckT(value)
      t2 == chainT(t1, undefinedCheckT(t1.m.value))
      t3 == chainT(t2, badStringCheckT(t2.m.value))
  IN chainT(t3, nanCheckT(t3.m.value))

\* the exceptionCheck of src/index.js: null, undefined and empty string only
exceptionCheckIndex(value) ==
  LET m1 == nullCheck(value)
      m2 == chain(m1, undefinedCheck(m1.value))
  IN chain(m2, emptyStringCheck(m2.value))

(***************************************************************************)
(* Maybe: safe map lookup                                                  *)
(***************************************************************************)
\* Map.prototype.get: undefined when the key has no entry
MapGet(map, key) == IF key \in DOMAIN map.m THEN map.m[key] ELSE Undefined

safeGet(map, key) ==
  IF map.t = "map" /\ truthy(MapGet(map, key)) THEN Just(MapGet(map, key))
  ELSE Nothing

handleJust(value) == Str(<<"The age is ">> \o ToStringJS(value) \o <<".">>)

handleNothing == Str(<<"No age available for given key.">>)

handleMaybe(maybe) ==
  IF maybe.tag = "Just" THEN handleJust(maybe.value) ELSE handleNothing

(***************************************************************************)
(* Result                                                                  *)
(***************************************************************************)
Ok(v) == [tag |-> "Ok", value |-> v]

Error(e) == [tag |-> "Error", value |-> e]

\* Result.chain: Ok(v).chain(f) is f(v), an Error is passed through.
\* r.chain(f) is written chainR(r, f(r.value)).
chainR(r, fOfValue) == IF r.tag = "Ok" THEN fOfValue ELSE r

\* Result.getOrElse: the payload of an Ok, the default for an Error
getOrElse(r, default) == IF r.tag = "Ok" THEN r.value ELSE default

\* Result.merge: whichever payload is present
merge(r) == r.value

\* mutant: the divisor is not looked at
safeDivide_unguarded(dividend, divisor) == Ok(Divide(dividend, divisor))

safeDivide(dividend, divisor) ==
  IF divisor = Num(0) THEN Error(Str(<<"Division by zero.">>))
  ELSE Ok(Divide(dividend, divisor))

nullCheckR(value) ==
  IF value = Null THEN Error(Str(<<"Error: value is null.">>)) ELSE Ok(value)

undefinedCheckR(value) ==
  IF value = Undefined THEN Error(Str(<<"Error: value is undefined.">>))
  ELSE Ok(value)

nanCheckR(value) ==
  IF isNaN(value) THEN Error(Str(<<"Error: value is not a number.">>))
  ELSE Ok(value)

emptyStringCheckR(value) ==
  IF value = Str(<<>>) THEN Error(Str(<<"Error: value is an empty string.">>))
  ELSE Ok(value)

blankStringCheckR(value) ==
  IF typeof(value) = "string" /\ trim(value.s) = <<>>
  THEN Error(Str(<<"Error: value is a blank string.">>))
  ELSE Ok(value)

posInfinityCheckR(value) ==
  IF value = Infinity THEN Error(Str(<<"Error: value is Infinity.">>))
  ELSE Ok(value)

negInfinityCheckR(value) ==
  IF value = NegInfinity THEN Error(Str(<<"Error: value is -Infinity.">>))
  ELSE Ok(value)

badStringCheckR(value) ==
  LET r1 == emptyStringCheckR(value)
  IN chainR(r1, blankStringCheckR(r1.value))

infinityCheckR(value) ==
  LET r1 == posInfinityCheckR(value)
  IN chainR(r1, negInfinityCheckR(r1.value))

\* mutant: the number check runs first
exceptionCheckR_nanFirst(value) ==
  LET r1 == nanCheckR(value)
      r2 == chainR(r1, nullCheckR(r1.value))
      r3 == chainR(r2, undefinedCheckR(r2.value))
      r4 == chainR(r3, badStringCheckR(r3.value))
  IN chainR(r4, infinityCheckR(r4.value))

exceptionCheckR(value) ==
  LET r1 == nullCheckR(value)
      r2 == chainR(r1, undefinedCheckR(r1.value))
      r3 == chainR(r2, badStringCheckR(r2.value))
      r4 == chainR(r3, nanCheckR(r3.value))
  IN chainR(r4, infinityCheckR(r4.value))

(***************************************************************************)
(* Result: cascading parsers.  A traced result is a Result with the        *)
(* sequence of the parsers that were invoked to produce it.                *)
(***************************************************************************)
parseNumber(value) ==
  IF typeof(value) = "number" THEN Ok(value)
  ELSE Error(Str(ToStringJS(value) \o <<" is not a number.">>))

parseString(value) ==
  IF typeof(value) = "string" THEN Ok(value)
  ELSE Error(Str(ToStringJS(value) \o <<" is not a string.">>))

parseBoolean(value) ==
  IF typeof(value) = "boolean" THEN Ok(value)
  ELSE Error(Str(ToStringJS(value) \o <<" is not a boolean.">>))

parseError(value) ==
  Error(Str(ToStringJS(value) \o <<" is not a value I can parse.">>))

Traced(r, name) == [r |-> r, calls |-> <<name>>]

\* Result.orElse on a traced result: Error(e).orElse(f) is f(e), and f is
\* invoked, and logged, only then; an Ok is passed through.
\* t.orElse(f) is written orElseT(t, name of f, f(t.r.value)).
orElseT(t, name, fOfError) ==
  IF t.r.tag = "Error" THEN [r |-> fOfError, calls |-> Append(t.calls, name)]
  ELSE t

\* Result.mapError on a traced result: transforms the payload of an Error
mapErrorT(t, name, fOfError) ==
  IF t.r.tag = "Error"
  THEN [r |-> Error(fOfError), calls |-> Append(t.calls, name)]
  ELSE t

\* mutant: the cascade ends with the error of the last parser
parseDataT_lastParser(value) ==
  LET t1 == Traced(parseNumber(value), "parseNumber")
      t2 == orElseT(t1, "parseString", parseString(value))
  IN orElseT(t2, "parseBoolean", parseBoolean(value))

parseDataT(value) ==
  LET t1 == Traced(parseNumber(value), "parseNumber")
      t2 == orElseT(t1, "parseString", parseString(value))
      t3 == orElseT(t2, "parseBoolean", parseBoolean(value))
  IN orElseT(t3, "parseError", parseError(value))

parseData(value) == parseDataT(value).r

parseDataMapT(value) ==
  LET t1 == Traced(parseNumber(value), "parseNumber")
      t2 == orElseT(t1, "parseString", parseString(value))
      t3 == orElseT(t2, "parseBoolean", parseBoolean(value))
  IN mapErrorT(t3, "mapError",
               Str(ToStringJS(value) \o <<" is not a value I can parse.">>))

parseDataMap(value) == parseDataMapT(value).r

errorHandler(r) ==
  IF r.tag = "Ok" THEN Str(<<"Ok: ">> \o ToStringJS(r.value))
  ELSE Str(<<"Error: ">> \o ToStringJS(r.value))

(***************************************************************************)
(* Regular expressions: Ends(re, s, P) is the set of positions where a     *)
(* match of re that starts at a position of P can end.                     *)
(***************************************************************************)
Letters ==
  {"a", "b", "c", "d", "e", "f", "g", "h", "i", "j", "k", "l", "m",
   "n", "o", "p", "q", "r", "s", "t", "u", "v", "w", "x", "y", "z",
   "A", "B", "C", "D", "E", "F", "G", "H", "I", "J", "K", "L", "M",
   "N", "O", "P", "Q", "R", "S", "T", "U", "V", "W", "X", "Y", "Z"}

\* the class \w
WordChars == Letters \cup DigitSet \cup {"_"}

CharIn(c, class) ==
  CASE class = "w" -> c \in WordChars
    [] class = "W" -> c \notin WordChars
    [] class = "[.-]" -> c \in {".", "-"}
    [] OTHER -> c = class

ReChar(class) == [k |-> "char", c |-> class]

ReSeq(parts) == [k |-> "seq", parts |-> parts]

ReOpt(r) == [k |-> "opt", r |-> r]

ReStar(r) == [k |-> "star", r |-> r]

RePlus(r) == [k |-> "plus", r |-> r]

ReRep(r, min, max) == [k |-> "rep", r |-> r, min |-> min, max |-> max]

RECURSIVE Ends(_, _, _)
RECURSIVE Closure(_, _, _)
RECURSIVE RepEnds(_, _, _, _, _)
Ends(re, s, P) ==
  CASE re.k = "char" ->
         {p + 1 : p \in {q \in P : q <= Len(s) /\ CharIn(s[q], re.c)}}
    [] re.k = "seq" ->
         IF re.parts = <<>> THEN P
         ELSE Ends(ReSeq(Tail(re.parts)), s, Ends(re.parts[1], s, P))
    [] re.k = "opt" -> P \cup Ends(re.r, s, P)
    [] re.k = "star" -> Closure(re.r, s, P)
    [] re.k = "plus" -> Closure(re.r, s, Ends(re.r, s, P))
    [] re.k = "rep" -> RepEnds(re.r, s, P, re.min, re.max)
Closure(r, s, P) ==
  LET Q == P \cup Ends(r, s, P) IN IF Q = P THEN P ELSE Closure(r, s, Q)
RepEnds(r, s, P, min, max) ==
  (IF min <= 0 THEN P ELSE {})
    \cup (IF max = 0 \/ P = {} THEN {}
          ELSE RepEnds(r, s, Ends(r, s, P), min - 1, max - 1))

\* RegExp.prototype.test: a match anywhere unless the expression is anchored
test(regexp, s) ==
  LET starts == IF regexp.fromStart THEN {1} ELSE 1..(Len(s) + 1)
      ends == Ends(regexp.re, s, starts)
  IN IF regexp.toEnd THEN (Len(s) + 1) \in ends ELSE ends # {}

(***************************************************************************)
(* Validation                                                              *)
(***************************************************************************)
Success(v) == [tag |-> "Success", value |-> v]

Failure(v) == [tag |-> "Failure", value |-> v]

\* an exception thrown instead of a value
Throw(e) == [tag |-> "Throw", error |-> e]

\* Validation.concat: a Success yields the other side, two Failures
\* concatenate their payloads with the payload's own concat method
concat(a, b) ==
  CASE a.tag = "Throw" -> a
    [] b.tag = "Throw" -> b
    [] a.tag = "Success" -> b
    [] b.tag = "Success" -> a
    [] a.value.t = "array" ->
         Failure(Arr(a.value.a \o (IF b.value.t = "array" THEN b.value.a
                                   ELSE <<b.value>>)))
    [] a.value.t = "string" -> Failure(Str(a.value.s \o ToStringJS(b.value)))
    [] OTHER -> Throw("TypeError")

\* Validation.collect: concat folded over the sequence from Success()
RECURSIVE collectFrom(_, _)
collectFrom(acc, validations) ==
  IF validations = <<>> THEN acc
  ELSE collectFrom(concat(acc, validations[1]), Tail(validations))

collect(validations) == collectFrom(Success(Undefined), validations)

\* Validation.fromMaybe, called without a failure value
fromMaybe(aMaybe) ==
  IF aMaybe.tag = "Just" THEN Success(aMaybe.value) ELSE Failure(Undefined)

\* Validation.mapFailure: transforms the payload of a Failure only.
\* v.mapFailure(f) is written mapFailure(v, f(v.value)).
mapFailure(v, fOfErrors) == IF v.tag = "Failure" THEN Failure(fOfErrors) ELSE v

EMAIL_REGEX ==
  LET w == ReChar("w")
      tail == ReStar(ReSeq(<<ReOpt(ReChar("[.-]")), RePlus(w)>>))
  IN [re |-> ReSeq(<<RePlus(w), tail, ReChar("@"), RePlus(w), tail,
                     RePlus(ReSeq(<<ReChar("."), ReRep(w, 2, 3)>>))>>),
      fromStart |-> TRUE, toEnd |-> TRUE,
      source |-> "/^\\w+([.-]?\\w+)*@\\w+([.-]?\\w+)*(\\.\\w{2,3})+$/"]

PASSWORD_REGEX ==
  [re |-> ReChar("W"), fromStart |-> FALSE, toEnd |-> FALSE,
   source |-> "/\\W/"]

PASSWORD_MIN == 8

notEmpty(field, value) ==
  IF trim(value.s) # <<>> THEN Success(value)
  ELSE Failure(Arr(<<Str(<<"You must enter a value for ">> \o field \o <<".">>)>>))

minLength(field, min, value) ==
  IF Len(value.s) > min THEN Success(value)
  ELSE Failure(Arr(<<Str(<<"Field <">> \o field
                          \o <<"> must contain a minimum of ">>
                          \o IntToChars(min) \o <<" characters">>)>>))

matches(field, regexp, value) ==
  IF test(regexp, value.s) THEN Success(value)
  ELSE Failure(Arr(<<Str(<<"Field <">> \o field
                          \o <<"> does not match expression ">>
                          \o <<regexp.source>> \o <<".">>)>>))

\* mutant: the two rules concatenated in the opposite order
isValidEmail_swapped(field, value) ==
  concat(matches(field, EMAIL_REGEX, value), notEmpty(field, value))

isValidEmail(field, value) ==
  concat(notEmpty(field, value), matches(field, EMAIL_REGEX, value))

\* mutant: the length rule and the pattern rule change places
isValidPassword_reordered(field, value) ==
  concat(concat(notEmpty(field, value), matches(field, PASSWORD_REGEX, value)),
         minLength(field, PASSWORD_MIN, value))

isValidPassword(field, value) ==
  concat(concat(notEmpty(field, value), minLength(field, PASSWORD_MIN, value)),
         matches(field, PASSWORD_REGEX, value))

validateForm(form) ==
  concat(isValidEmail(<<"email">>, form.email),
         isValidPassword(<<"password">>, form.password))

\* mutant: the array handed to collect lists the password first
validateFormCollect_swapped(form) ==
  collect(<<isValidPassword(<<"password">>, form.password),
            isValidEmail(<<"email">>, form.email)>>)

validateFormCollect(form) ==
  collect(<<isValidEmail(<<"email">>, form.email),
            isValidPassword(<<"password">>, form.password)>>)

RequiredError(fieldName) ==
  Arr(<<Obj(<<<<fieldName, Str(fieldName \o <<" is required">>)>>>>)>>)

isRequiredMatch(field, fieldName) ==
  LET v == fromMaybe(exceptionCheck(field))
  IN IF v.tag = "Success" THEN Success(v.value)
     ELSE Failure(RequiredError(fieldName))

\* mutant: the failure of fromMaybe is returned as it is
isRequiredMap_unmapped(field, fieldName) == fromMaybe(exceptionCheck(field))

isRequiredMap(field, fieldName) ==
  mapFailure(fromMaybe(exceptionCheck(field)), RequiredError(fieldName))

\* the same two functions in src/index.js, over its own exceptionCheck
isRequiredMatchIndex(field, fieldName) ==
  LET v == fromMaybe(exceptionCheckIndex(field))
  IN IF v.tag = "Success" THEN Success(v.value)
     ELSE Failure(RequiredError(fieldName))

isRequiredMapIndex(field, fieldName) ==
  mapFailure(fromMaybe(exceptionCheckIndex(field)), RequiredError(fieldName))

(***************************************************************************)
(* Validation: several forms, handling, reducing, transforming             *)
(***************************************************************************)
RECURSIVE validateEach(_)
validateEach(forms) ==
  IF forms = <<>> THEN <<>>
  ELSE <<validateForm(forms[1])>> \o validateEach(Tail(forms))

validateForms(forms) == collect(validateEach(forms))

\* Validation.map: transforms the payload of a Success only.
\* v.map(f) is written map(v, f(v.value)).
map(v, fOfValue) == IF v.tag = "Success" THEN Success(fOfValue) ELSE v

\* Validation.bimap: the first function on a Failure, the second on a Success
bimap(v, fOfErrors, gOfValue) ==
  IF v.tag = "Failure" THEN Failure(fOfErrors) ELSE Success(gOfValue)

\* Validation.fold: the value of the first function for a Failure, of the
\* second for a Success
fold(v, fOfErrors, gOfValue) == IF v.tag = "Failure" THEN fOfErrors ELSE gOfValue

successHandler(value) == Str(<<"Success: ">> \o ToStringJS(value))

\* value.join exists on arrays only: the call throws on any other payload
failureHandler(value) ==
  IF value.t = "array"
  THEN Str(<<"Failure: [\n">> \o JoinJS(value.a, <<",\n">>) \o <<"\n]">>)
  ELSE Throw("TypeError")

handleValidation(validation) ==
  IF validation.tag = "Success" THEN successHandler(validation.value)
  ELSE failureHandler(validation.value)

validateWithFold(form) ==
  LET v == validateForm(form)
  IN fold(v, failureHandler(v.value), successHandler(v.value))

handleValidationWithFold(validation) ==
  fold(validation, failureHandler(validation.value),
       successHandler(validation.value))

successTransformation(x) == Str(<<"Success">>)

failureTransformation(x) == Str(<<"Failure">>)

\* mutant: bimap where map is meant, so a Failure is transformed as well
validateSuccess_both(validation) ==
  bimap(validation, failureTransformation(validation.value),
        successTransformation(validation.value))

validateSuccess(validation) ==
  map(validation, successTransformation(validation.value))

validateFailure(validation) ==
  mapFailure(validation, failureTransformation(validation.value))

validateSimplify(validation) ==
  bimap(validation, failureTransformation(validation.value),
        successTransformation(validation.value))

(***************************************************************************)
(* Inputs                                                                  *)
(***************************************************************************)
\* all strings over an alphabet, up to a length
StringsUpTo(alphabet, n) == UNION {[1..k -> alphabet] : k \in 0..n}

Steve == Str(<<"S", "t", "e", "v", "e">>)

Values ==
  {Null, Undefined, NaN, Infinity, NegInfinity, Bool(TRUE), Bool(FALSE),
   Obj(<<>>), Arr(<<>>), Arr(<<Num(1)>>), Arr(<<Num(1), Num(2)>>),
   Arr(<<Str(<<"S">>)>>), Steve}
    \cup {Num(n) : n \in (0 - MaxInt)..MaxInt}
    \cup {Str(s) : s \in StringsUpTo({" ", "\n", "1", "S"}, MaxStrLen)}

FieldNames == {<<"name">>, <<"email">>}

Keys == {"steve", "laura", "steven"}

StoredValues == {Num(39), Num(38), Num(0), Bool(FALSE), Str(<<>>), Steve}

Maps ==
  {MapOf(m) : m \in UNION {[D -> StoredValues] : D \in SUBSET {"steve", "laura"}}}

Defaults == {Str(<<"Try again.">>), Num(0)}

Operands == {Num(n) : n \in (0 - MaxInt)..MaxInt} \cup {Num(10)}

ErrorSeqs ==
  {Arr(e) : e \in StringsUpTo({Str(<<"x">>), Str(<<"y">>)}, MaxErrors)}

EmailInputs ==
  {Str(s) : s \in StringsUpTo({"a", ".", "@", "-", " "}, MaxEmailLen)}

PasswordInputs ==
  {Str(s) : s \in StringsUpTo({"a", "+", " "}, MaxPasswordLen)}

makeForm(email, password) == [email |-> email, password |-> password]

bademail == Str(<<"b", "a", "d", "e", "m", "a", "i", "l">>)

goodemail ==
  Str(<<"g", "o", "o", "d", "@", "e", "m", "a", "i", "l", ".", "c", "o", "m">>)

FormEmails == {Str(<<>>), Str(<<" ">>), bademail, goodemail, Str(<<"a", "@", "a">>)}

FormPasswords == {Str(s) : s \in StringsUpTo({"a", "+"}, MaxPasswordLen)}

Forms == {makeForm(e, p) : e \in FormEmails, p \in FormPasswords}

badpassword ==
  Str(<<"b", "a", "d", "p", "a", "s", "s", "w", "o", "r", "d">>)

TestPasswords ==
  {Str(<<>>), badpassword, Str(<<"a", "b", "c", "1", "2", "3", "+">>),
   Str(<<"a", "b", "c", "1", "2", "3", "+", "-", "=">>)}

TestForms == {makeForm(e, p) : e \in FormEmails, p \in TestPasswords}

\* testForm1, testForm2, testForm3 and testForm5
SampleForms ==
  {makeForm(Str(<<>>), Str(<<>>)), makeForm(bademail, badpassword),
   makeForm(goodemail, badpassword),
   makeForm(goodemail, Str(<<"a", "b", "c", "1", "2", "3", "+", "-", "=">>))}

\* the calls that produce a Validation
Sources ==
  [fn : {"validateForm", "validateFormCollect"}, form : TestForms]
    \cup [fn : {"validateForms"}, forms : StringsUpTo(SampleForms, MaxForms)]
    \cup [fn : {"isValidEmail"}, value : FormEmails]
    \cup [fn : {"isValidPassword", "notEmpty", "minLength", "matches"},
          value : TestPasswords]
    \cup [fn : {"isRequiredMatch", "isRequiredMap"},
          field : {Null, Steve, Num(0), Str(<<>>)}, fieldName : FieldNames]

Produce(src) ==
  CASE src.fn = "validateForm" -> validateForm(src.form)
    [] src.fn = "validateFormCollect" -> validateFormCollect(src.form)
    [] src.fn = "validateForms" -> validateForms(src.forms)
    [] src.fn = "isValidEmail" -> isValidEmail(<<"email">>, src.value)
    [] src.fn = "isValidPassword" -> isValidPassword(<<"password">>, src.value)
    [] src.fn = "notEmpty" -> notEmpty(<<"password">>, src.value)
    [] src.fn = "minLength" -> minLength(<<"password">>, PASSWORD_MIN, src.value)
    [] src.fn = "matches" -> matches(<<"password">>, PASSWORD_REGEX, src.value)
    [] src.fn = "isRequiredMatch" -> isRequiredMatch(src.field, src.fieldName)
    [] src.fn = "isRequiredMap" -> isRequiredMap(src.field, src.fieldName)

Inputs ==
  [op : {"safeGet"}, map : Maps \cup {Null, Obj(<<>>)}, key : Keys]
    \cup [op : {"exceptionCheck", "exceptionCheckR", "parseData", "parseDataMap"},
          value : Values]
    \cup [op : {"exceptionCheckT"}, value : Values]
    \cup [op : {"isRequired"}, field : Values, fieldName : FieldNames]
    \cup [op : {"safeDivide"}, dividend : Operands, divisor : Operands,
          default : Defaults]
    \cup [op : {"concat"}, a : ErrorSeqs, b : ErrorSeqs, c : ErrorSeqs]
    \cup [op : {"minLength"}, field : {<<"password">>}, min : 0..(PASSWORD_MIN + 1),
          value : FormPasswords]
    \cup [op : {"isValidEmail"}, field : {<<"email">>}, value : EmailInputs]
    \cup [op : {"isValidPassword"}, field : {<<"password">>}, value : PasswordInputs]
    \cup [op : {"validateForm"}, form : Forms]
    \cup [op : {"validation"}, source : Sources]
    \cup [op : {"validateWithFold"}, form : TestForms]

(***************************************************************************)
(* The state machine: an input is drawn, then the function is applied.     *)
(***************************************************************************)
None == [tag |-> "None"]

Init ==
  /\ args \in Inputs
  /\ op = args.op
  /\ result = None
  /\ pc = "ready"

SafeGet ==
  /\ pc = "ready"
  /\ op = "safeGet"
  /\ result' = LET maybe == safeGet(args.map, args.key)
               IN [maybe |-> maybe, handled |-> handleMaybe(maybe)]
  /\ pc' = "done"
  /\ UNCHANGED <<op, args>>

ExceptionCheck ==
  /\ pc = "ready"
  /\ op = "exceptionCheck"
  /\ result' = exceptionCheck(args.value)
  /\ pc' = "done"
  /\ UNCHANGED <<op, args>>

\* exceptionCheck(value), with the check functions it invokes recorded
ExceptionCheckT ==
  /\ pc = "ready"
  /\ op = "exceptionCheckT"
  /\ result' = exceptionCheckT(args.value)
  /\ pc' = "done"
  /\ UNCHANGED <<op, args>>

ExceptionCheckR ==
  /\ pc = "ready"
  /\ op = "exceptionCheckR"
  /\ result' = exceptionCheckR(args.value)
  /\ pc' = "done"
  /\ UNCHANGED <<op, args>>

ParseData ==
  /\ pc = "ready"
  /\ op = "parseData"
  /\ result' = parseDataT(args.value)
  /\ pc' = "done"
  /\ UNCHANGED <<op, args>>

ParseDataMap ==
  /\ pc = "ready"
  /\ op = "parseDataMap"
  /\ result' = parseDataMapT(args.value)
  /\ pc' = "done"
  /\ UNCHANGED <<op, args>>

IsRequired ==
  /\ pc = "ready"
  /\ op = "isRequired"
  /\ result' = [match |-> isRequiredMatch(args.field, args.fieldName),
                map |-> isRequiredMap(args.field, args.fieldName),
                matchIndex |-> isRequiredMatchIndex(args.field, args.fieldName),
                mapIndex |-> isRequiredMapIndex(args.field, args.fieldName)]
  /\ pc' = "done"
  /\ UNCHANGED <<op, args>>

SafeDivide ==
  /\ pc = "ready"
  /\ op = "safeDivide"
  /\ result' = LET r == safeDivide(args.dividend, args.divisor)
               IN [r |-> r, getOrElse |-> getOrElse(r, args.default),
                   merge |-> merge(r)]
  /\ pc' = "done"
  /\ UNCHANGED <<op, args>>

MinLength ==
  /\ pc = "ready"
  /\ op = "minLength"
  /\ result' = minLength(args.field, args.min, args.value)
  /\ pc' = "done"
  /\ UNCHANGED <<op, args>>

IsValidEmail ==
  /\ pc = "ready"
  /\ op = "isValidEmail"
  /\ result' = isValidEmail(args.field, args.value)
  /\ pc' = "done"
  /\ UNCHANGED <<op, args>>

IsValidPassword ==
  /\ pc = "ready"
  /\ op = "isValidPassword"
  /\ result' = isValidPassword(args.field, args.value)
  /\ pc' = "done"
  /\ UNCHANGED <<op, args>>

ValidateForm ==
  /\ pc = "ready"
  /\ op = "validateForm"
  /\ result' = [concat |-> validateForm(args.form),
                collect |-> validateFormCollect(args.form)]
  /\ pc' = "done"
  /\ UNCHANGED <<op, args>>

\* three Failures concatenated, nested to the left and to the right
Concat ==
  /\ pc = "ready"
  /\ op = "concat"
  /\ result' = [left |-> concat(concat(Failure(args.a), Failure(args.b)),
                                Failure(args.c)),
                right |-> concat(Failure(args.a),
                                 concat(Failure(args.b), Failure(args.c)))]
  /\ pc' = "done"
  /\ UNCHANGED <<op, args>>

ValidateWithFold ==
  /\ pc = "ready"
  /\ op = "validateWithFold"
  /\ result' = [fold |-> validateWithFold(args.form),
                match |-> handleValidation(validateForm(args.form))]
  /\ pc' = "done"
  /\ UNCHANGED <<op, args>>

\* A Validation is produced, transformed up to MaxSteps times and handled.
\* result.v is the Validation, result.from the one it was transformed from
\* by result.by, result.shown what the two handlers returned for it.
Validate ==
  /\ pc = "ready"
  /\ op = "validation"
  /\ result' = [v |-> Produce(args.source), from |-> None, by |-> args.source.fn,
                steps |-> 0, shown |-> None]
  /\ pc' = "done"
  /\ UNCHANGED <<op, args>>

ValidateSuccess ==
  /\ pc = "done"
  /\ op = "validation"
  /\ result.steps < MaxSteps
  /\ result' = [v |-> validateSuccess(result.v), from |-> result.v, by |-> "validateSuccess",
                steps |-> result.steps + 1, shown |-> None]
  /\ UNCHANGED <<op, args, pc>>

ValidateFailure ==
  /\ pc = "done"
  /\ op = "validation"
  /\ result.steps < MaxSteps
  /\ result' = [v |-> validateFailure(result.v), from |-> result.v, by |-> "validateFailure",
                steps |-> result.steps + 1, shown |-> None]
  /\ UNCHANGED <<op, args, pc>>

ValidateSimplify ==
  /\ pc = "done"
  /\ op = "validation"
  /\ result.steps < MaxSteps
  /\ result' = [v |-> validateSimplify(result.v), from |-> result.v, by |-> "validateSimplify",
                steps |-> result.steps + 1, shown |-> None]
  /\ UNCHANGED <<op, args, pc>>

HandleValidation ==
  /\ pc = "done"
  /\ op = "validation"
  /\ result' = [result EXCEPT
                  !.shown = [match |-> handleValidation(result.v),
                             fold |-> handleValidationWithFold(result.v)]]
  /\ pc' = "shown"
  /\ UNCHANGED <<op, args>>

Next ==
  \/ SafeGet
  \/ ExceptionCheck
  \/ ExceptionCheckT
  \/ ExceptionCheckR
  \/ ParseData
  \/ ParseDataMap
  \/ IsRequired
  \/ SafeDivide
  \/ MinLength
  \/ IsValidEmail
  \/ IsValidPassword
  \/ ValidateForm
  \/ Concat
  \/ ValidateWithFold
  \/ Validate
  \/ ValidateSuccess
  \/ ValidateFailure
  \/ ValidateSimplify
  \/ HandleValidation

Spec == Init /\ [][Next]_vars

(***************************************************************************)
(* Properties                                                              *)
(***************************************************************************)
Done(o) == pc = "done" /\ op = o

\* the errors of a rule result: none for a Success
ErrorsOf(v) == IF v.tag = "Failure" THEN v.value.a ELSE <<>>

RECURSIVE AllErrors(_)
AllErrors(vs) == IF vs = <<>> THEN <<>> ELSE ErrorsOf(vs[1]) \o AllErrors(Tail(vs))

\* what a field validation over these rule results has to return
Aggregate(vs, value) ==
  IF \A i \in 1..Len(vs) : vs[i].tag = "Success" THEN Success(value)
  ELSE Failure(Arr(AllErrors(vs)))

EmailRules(field, value) ==
  <<notEmpty(field, value), matches(field, EMAIL_REGEX, value)>>

PasswordRules(field, value) ==
  <<notEmpty(field, value), minLength(field, PASSWORD_MIN, value),
    matches(field, PASSWORD_REGEX, value)>>

EmptyEmailErrors ==
  Arr(<<Str(<<"You must enter a value for ", "email", ".">>),
        Str(<<"Field <", "email", "> does not match expression ",
              EMAIL_REGEX.source, ".">>)>>)

\* C1: isValidEmail and isValidPassword return Success(value) only if every
\* one of their rules passes, and otherwise a Failure holding exactly one
\* message per failing rule, in rule-declaration order; isValidEmail on the
\* empty string returns the empty-value message, then the pattern message.
C1_RuleErrorsInOrder ==
  /\ Done("isValidEmail") =>
        /\ result = Aggregate(EmailRules(args.field, args.value), args.value)
        /\ \A i \in 1..2 :
             Len(ErrorsOf(EmailRules(args.field, args.value)[i])) <= 1
        /\ args.value = Str(<<>>) => result = Failure(EmptyEmailErrors)
  /\ Done("isValidPassword") =>
        /\ result = Aggregate(PasswordRules(args.field, args.value), args.value)
        /\ \A i \in 1..3 :
             Len(ErrorsOf(PasswordRules(args.field, args.value)[i])) <= 1

C1_Witness ==
  /\ Done("isValidEmail")
  /\ args.value = Str(<<>>)
  /\ result.tag = "Failure"
  /\ Len(result.value.a) = 2

\* C2: validateFormCollect(form) returns the same Validation as
\* validateForm(form): a Failure holding all email-rule errors followed by
\* all password-rule errors if any rule fails, and otherwise Success wrapping
\* form.password.
C2_CollectIsConcat ==
  Done("validateForm") =>
    LET email == isValidEmail(<<"email">>, args.form.email)
        password == isValidPassword(<<"password">>, args.form.password)
        errors == ErrorsOf(email) \o ErrorsOf(password)
    IN /\ result.collect = result.concat
       /\ result.collect =
            IF email.tag = "Success" /\ password.tag = "Success"
            THEN Success(args.form.password)
            ELSE Failure(Arr(errors))

C2_Witness ==
  /\ Done("validateForm")
  /\ result.collect = Success(args.form.password)
  /\ result.concat = Success(args.form.password)
  /\ args.form.password # args.form.email

\* C3: concat is associative on failures: both nestings of three Failures
\* are Failure(a ++ b ++ c), so the left-nested concat of isValidPassword
\* gives the same result as the right nesting of the same three rule results.
C3_ConcatAssociative ==
  /\ Done("concat") =>
        /\ result.left = Failure(Arr(args.a.a \o args.b.a \o args.c.a))
        /\ result.right = Failure(Arr(args.a.a \o args.b.a \o args.c.a))
  /\ Done("isValidPassword") =>
        LET r == PasswordRules(args.field, args.value)
        IN /\ result = concat(r[1], concat(r[2], r[3]))
           /\ (\A i \in 1..3 : r[i].tag = "Failure") =>
                result = Failure(Arr(r[1].value.a \o r[2].value.a \o r[3].value.a))

C3_Witness ==
  /\ Done("isValidPassword")
  /\ \A i \in 1..3 : PasswordRules(args.field, args.value)[i].tag = "Failure"
  /\ Len(result.value.a) = 3

IsBlank(v) == typeof(v) = "string" /\ trim(v.s) = <<>>

\* C4: exceptionCheck(value) returns Nothing for null, undefined, NaN, the
\* empty string and every whitespace-only string, and Just(value) for every
\* other input, including 0, false, non-numeric strings and objects.
C4_PresenceCheck ==
  Done("exceptionCheck") =>
    result = IF args.value \in {Null, Undefined, NaN} \/ IsBlank(args.value)
             THEN Nothing
             ELSE Just(args.value)

RequiredErrors(fieldName) ==
  Arr(<<Obj(<<<<fieldName, Str(fieldName \o <<" is required">>)>>>>)>>)

\* C5: isRequiredMap and isRequiredMatch return the same Validation: when
\* exceptionCheck(field) is Nothing, the Failure whose errors are exactly
\* [{fieldName: '<fieldName> is required'}], and when it is Just(v),
\* Success(v); in src/index.js likewise, over its own exceptionCheck.
C5_RequiredSame ==
  Done("isRequired") =>
    /\ result.map = result.match
    /\ result.map =
         IF exceptionCheck(args.field) = Nothing
         THEN Failure(RequiredErrors(args.fieldName))
         ELSE Success(args.field)
    /\ result.mapIndex = result.matchIndex
    /\ result.mapIndex =
         IF exceptionCheckIndex(args.field) = Nothing
         THEN Failure(RequiredErrors(args.fieldName))
         ELSE Success(args.field)

C5_Witness ==
  /\ Done("isRequired")
  /\ args.field = Null
  /\ args.fieldName = <<"name">>
  /\ result.map = Failure(Arr(<<Obj(<<<<<<"name">>,
                                         Str(<<"name", " is required">>)>>>>)>>))

\* the seven checks of exceptionCheckR, in chain order, with their messages
ChecksR(v) ==
  <<<<v = Null, "Error: value is null.">>,
    <<v = Undefined, "Error: value is undefined.">>,
    <<v = Str(<<>>), "Error: value is an empty string.">>,
    <<IsBlank(v), "Error: value is a blank string.">>,
    <<isNaN(v), "Error: value is not a number.">>,
    <<v = Infinity, "Error: value is Infinity.">>,
    <<v = NegInfinity, "Error: value is -Infinity.">>>>

\* C6: exceptionCheckR(value) returns Ok(value) if and only if value passes
\* all seven checks, and otherwise an Error carrying exactly the message of
\* the first failing check in the order null, undefined, empty string, blank
\* string, NaN, Infinity, -Infinity.
C6_FirstFailingCheck ==
  Done("exceptionCheckR") =>
    LET checks == ChecksR(args.value)
        failing == {i \in 1..7 : checks[i][1]}
        first == CHOOSE i \in failing : \A j \in failing : i <= j
    IN /\ result = IF failing = {} THEN Ok(args.value)
                   ELSE Error(Str(<<checks[first][2]>>))
       /\ args.value = Null => result = Error(Str(<<"Error: value is null.">>))
       /\ args.value = Str(<<" ">>) =>
            result = Error(Str(<<"Error: value is a blank string.">>))
       /\ args.value = Infinity =>
            result = Error(Str(<<"Error: value is Infinity.">>))
       /\ args.value = Num(0) => result = Ok(Num(0))

C6_Witness ==
  /\ Done("exceptionCheckR")
  /\ args.value = Undefined
  /\ isNaN(args.value)
  /\ result = Error(Str(<<"Error: value is undefined.">>))

\* C7: parseData(value) tries parseNumber, parseString, parseBoolean left to
\* right and stops at the first success: Ok(value) if and only if value is a
\* number, a string or a boolean, no parser right of the first success being
\* invoked, and otherwise Error('<value> is not a value I can parse.');
\* parseDataMap(value) returns the same Result.
C7_ParserCascade ==
  /\ Done("parseData") =>
        LET v == args.value
            ty == typeof(v)
        IN /\ result.r =
                IF ty \in {"number", "string", "boolean"} THEN Ok(v)
                ELSE Error(Str(ToStringJS(v) \o <<" is not a value I can parse.">>))
           /\ result.calls =
                CASE ty = "number" -> <<"parseNumber">>
                  [] ty = "string" -> <<"parseNumber", "parseString">>
                  [] ty = "boolean" ->
                       <<"parseNumber", "parseString", "parseBoolean">>
                  [] OTHER ->
                       <<"parseNumber", "parseString", "parseBoolean", "parseError">>
           /\ v = Null =>
                result.r = Error(Str(<<"null", " is not a value I can parse.">>))
  /\ Done("parseDataMap") => result.r = parseData(args.value)

C7_Witness ==
  /\ Done("parseDataMap")
  /\ args.value = Null
  /\ result.r = Error(Str(<<"null", " is not a value I can parse.">>))
  /\ parseData(args.value) = result.r

\* C8: safeDivide(dividend, divisor) returns Error('Division by zero.') if
\* and only if divisor is 0 and otherwise Ok(dividend / divisor); getOrElse(d)
\* returns the quotient for Ok and d for Error, merge() the quotient for Ok
\* and 'Division by zero.' for Error; safeDivide never throws.
C8_SafeDivide ==
  Done("safeDivide") =>
    LET r == result.r
    IN /\ r.tag \in {"Ok", "Error"}
       /\ r.tag = "Error" <=> args.divisor = Num(0)
       /\ r.tag = "Error" =>
            /\ r = Error(Str(<<"Division by zero.">>))
            /\ result.getOrElse = args.default
            /\ result.merge = Str(<<"Division by zero.">>)
       /\ r.tag = "Ok" =>
            /\ r.value.t = "number" /\ r.value.k = "fin" /\ r.value.d > 0
            /\ r.value.n * args.divisor.n = args.dividend.n * r.value.d
            /\ Gcd(Abs(r.value.n), r.value.d) = 1
            /\ result.getOrElse = r.value
            /\ result.merge = r.value
       /\ args.dividend = Num(10) /\ args.divisor = Num(5) => r = Ok(Num(2))

C8_Witness ==
  /\ Done("safeDivide")
  /\ args.dividend = Num(10)
  /\ args.divisor = Num(0)
  /\ args.default = Str(<<"Try again.">>)
  /\ result.getOrElse = Str(<<"Try again.">>)
  /\ result.merge = Str(<<"Division by zero.">>)

\* C9: safeGet(m, k) returns Just(m.get(k)) when k has an entry in m, whatever
\* value is stored under it, and Nothing when k has no entry or the first
\* argument is not a Map; handleMaybe yields 'The age is <value>.' for the
\* Just and 'No age available for given key.' for the Nothing.
C9_SafeGetEntry ==
  Done("safeGet") =>
    IF args.map.t = "map" /\ args.key \in DOMAIN args.map.m
    THEN /\ result.maybe = Just(args.map.m[args.key])
         /\ result.handled =
              Str(<<"The age is ">> \o ToStringJS(args.map.m[args.key]) \o <<".">>)
    ELSE /\ result.maybe = Nothing
         /\ result.handled = Str(<<"No age available for given key.">>)

\* C10: minLength(field, min, value) returns Success(value) for every string
\* of at least min characters, and the Failure 'Field <field> must contain a
\* minimum of <min> characters' only for values shorter than min.
C10_MinLength ==
  Done("minLength") =>
    result =
      IF Len(args.value.s) >= args.min THEN Success(args.value)
      ELSE Failure(Arr(<<Str(<<"Field <">> \o args.field
                              \o <<"> must contain a minimum of ">>
                              \o IntToChars(args.min) \o <<" characters">>)>>))

\* a state that holds a Validation some function has returned
Returned == op = "validation" /\ pc \in {"done", "shown"}

IsErrorSequence(x) == x.t = "array" /\ Len(x.a) >= 1

\* C11: every Failure that any function of the program returns, the
\* transformations applied in any order to each other's results included,
\* carries a non-empty ordered sequence of errors, never a bare scalar.
C11_FailureHoldsSequence ==
  Returned /\ result.v.tag = "Failure" => IsErrorSequence(result.v.value)

\* C12: validateSuccess returns every Failure unchanged and turns every
\* Success into Success('Success'); validateFailure returns every Success
\* unchanged and changes only the payload of a Failure; validateSimplify
\* applies exactly one of the two and never changes the variant.
C12_OwnVariantOnly ==
  Returned /\ result.steps > 0 =>
    LET v == result.v
        from == result.from
    IN /\ result.by = "validateSuccess" =>
            /\ from.tag = "Failure" => v = from
            /\ from.tag = "Success" => v = Success(Str(<<"Success">>))
       /\ result.by = "validateFailure" =>
            /\ from.tag = "Success" => v = from
            /\ from.tag = "Failure" => v.tag = "Failure"
       /\ result.by = "validateSimplify" =>
            /\ v.tag = from.tag
            /\ from.tag = "Success" => v = Success(Str(<<"Success">>))
            /\ from.tag = "Failure" => v = Failure(Str(<<"Failure">>))

C12_Witness ==
  /\ Returned
  /\ result.by = "validateSuccess"
  /\ result.from.tag = "Failure"
  /\ result.from.value.t = "array"
  /\ Len(result.from.value.a) >= 2
  /\ result.v = result.from

IsString(x) == "t" \in DOMAIN x /\ x.t = "string"

\* C14: the display helpers never throw on a Validation obtained from
\* validateForm and any sequence of validateSuccess, validateFailure and
\* validateSimplify: handleValidation and handleValidationWithFold return
\* the same string, 'Success: <value>' or 'Failure: [...]' with one error
\* per line, and validateWithFold(form) is handleValidation(validateForm(form)).
C14_HandlersReturnStrings ==
  /\ op = "validation" /\ pc = "shown" /\ args.source.fn = "validateForm" =>
        /\ IsString(result.shown.match)
        /\ IsString(result.shown.fold)
        /\ result.shown.fold = result.shown.match
        /\ result.v.tag = "Success" =>
             result.shown.match = Str(<<"Success: ">> \o ToStringJS(result.v.value))
        /\ result.v.tag = "Failure" /\ result.v.value.t = "array" =>
             result.shown.match =
               Str(<<"Failure: [\n">> \o JoinJS(result.v.value.a, <<",\n">>)
                     \o <<"\n]">>)
  /\ Done("validateWithFold") =>
        IsString(result.fold) /\ result.fold = result.match

\* the leaf checks of exceptionCheck in chain order
CheckOrder ==
  <<"nullCheck", "undefinedCheck", "emptyStringCheck", "blankStringCheck",
    "nanCheck">>

\* what the i-th check of the chain returns for a value
Outcome(i, v) ==
  CASE i = 1 -> nullCheck(v)
    [] i = 2 -> undefinedCheck(v)
    [] i = 3 -> emptyStringCheck(v)
    [] i = 4 -> blankStringCheck(v)
    [] i = 5 -> nanCheck(v)

\* C13: in exceptionCheck(value) the checks run strictly in the order
\* nullCheck, undefinedCheck, emptyStringCheck, blankStringCheck, nanCheck;
\* as soon as one returns Nothing no later check is invoked and the result
\* is Nothing; a later check is invoked only with the original value and
\* only after every earlier check returned Just(value).
C13_ChecksInOrder ==
  Done("exceptionCheckT") =>
    LET v == args.value
        calls == result.calls
        n == Len(calls)
    IN /\ n \in 1..5
       /\ \A i \in 1..n : calls[i] = [check |-> CheckOrder[i], with |-> v]
       /\ \A i \in 1..(n - 1) : Outcome(i, v) = Just(v)
       /\ n < 5 => Outcome(n, v) = Nothing
       /\ result.m = Outcome(n, v)
       /\ (\E i \in 1..5 : Outcome(i, v) = Nothing) => result.m = Nothing
       /\ result.m = exceptionCheck(v)

C13_Witness ==
  /\ Done("exceptionCheckT")
  /\ args.value = Str(<<" ">>)
  /\ Len(result.calls) = 4
  /\ result.calls[4].check = "blankStringCheck"
  /\ result.m = Nothing

\* C15: the Result-based check accepts and rejects exactly the inputs of the
\* Maybe-based check: exceptionCheckR(value) is Ok(value) if and only if
\* exceptionCheck(value) is Just(value), and an Error if and only if
\* exceptionCheck(value) is Nothing, Infinity and -Infinity included.
C15_SameAcceptance ==
  Done("exceptionCheck") =>
    LET r == exceptionCheckR(args.value)
    IN /\ r = Ok(args.value) <=> result = Just(args.value)
       /\ r.tag = "Error" <=> result = Nothing

====
